---- MODULE Spec2Model ----
(***************************************************************************)
(* The prompt-assembly and streaming-response bridge of the two servers    *)
(* backend/claude_api_server.py (plain) and backend/claude_api_server_rag  *)
(* .py (with retrieval).  One request is followed from the handler         *)
(* chat_completions through retrieve_context, prompt assembly,             *)
(* call_claude_cli and the buffered or streamed response.                  *)
(*                                                                         *)
(* A text is a sequence of one-character strings.  A message is a function *)
(* whose domain is the set of keys its JSON object has.                    *)
(***************************************************************************)
EXTENDS Naturals, Sequences, FiniteSets

(***************************************************************************)
(* Bounds of the model.                                                    *)
(***************************************************************************)
\* longest message list of a request
MaxMsgs == 2
\* most lines the backend writes to its standard output in streaming mode
MaxLines == 2

(***************************************************************************)
(* Texts of the program.                                                   *)
(***************************************************************************)
SystemTag ==
    <<"S", "y", "s", "t", "e", "m", ":", " ">>
AssistantTag ==
    <<"A", "s", "s", "i", "s", "t", "a", "n", "t", ":", " ">>
HumanTag ==
    <<"H", "u", "m", "a", "n", ":", " ">>
NoContextText ==
    <<"N", "o", " ", "a", "d", "d", "i", "t", "i", "o", "n", "a", "l", " ", "c", "o",
      "n", "t", "e", "x", "t", " ", "r", "e", "t", "r", "i", "e", "v", "e", "d", ".">>
TimeoutText ==
    <<"[", "E", "r", "r", "o", "r", ":", " ", "R", "e", "q", "u", "e", "s", "t", " ",
      "t", "i", "m", "e", "d", " ", "o", "u", "t", " ", "a", "f", "t", "e", "r", " ",
      "3", "0", "0", "s", "]">>
ErrorOpen ==
    <<"[", "E", "r", "r", "o", "r", ":", " ">>
ErrorClose ==
    <<"]">>
CorpusLabel ==
    <<"C", "O", "N", "V", "E", "R", "S", "A", "T", "I", "O", "N", " ", "E", "X", "A",
      "M", "P", "L", "E", "S", " ", "F", "R", "O", "M", " ", "S", "E", "R", "G", "I",
      "O", ":">>
PersonalityLabel ==
    <<"\n", "P", "E", "R", "S", "O", "N", "A", "L", "I", "T", "Y", " ", "F", "R", "A",
      "M", "E", "W", "O", "R", "K", "S", ":">>
RhetoricalLabel ==
    <<"\n", "R", "H", "E", "T", "O", "R", "I", "C", "A", "L", " ", "D", "E", "V", "I",
      "C", "E", " ", "T", "O", " ", "U", "S", "E", ":">>
HumorLabel ==
    <<"\n", "H", "U", "M", "O", "R", " ", "P", "A", "T", "T", "E", "R", "N", "S", " ",
      "T", "O", " ", "D", "E", "P", "L", "O", "Y", ":">>
humor_keywords ==
    << <<"a", "b", "s", "u", "r", "d">>,
       <<"r", "i", "d", "i", "c", "u", "l">>,
       <<"s", "p", "i", "r", "i", "t">>,
       <<"v", "i", "b", "r", "a">>,
       <<"e", "n", "e", "r", "g">>,
       <<"m", "a", "n", "i", "f", "e", "s", "t">>,
       <<"u", "n", "i", "v", "e", "r", "s">> >>
\* the fixed persona text, abbreviated to its first words: it holds no
\* replacement field and is never inspected by the code
PersonaBody ==
    <<"Y", "o", "u", " ", "a", "r", "e", " ", "S", "e", "r", "g", "i", "o">>
\* the replacement field {personality_context} of the template, kept as one item
Slot == "{personality_context}"
\* SERGIO_SYSTEM_PROMPT of the server with retrieval: the persona text, a blank
\* line and the replacement field
SERGIO_SYSTEM_PROMPT_RAG == PersonaBody \o <<"\n", "\n", Slot>>
\* SERGIO_SYSTEM_PROMPT of the plain server: the persona text and a newline
SERGIO_SYSTEM_PROMPT_PLAIN == PersonaBody \o <<"\n">>

\* the keys of COLLECTIONS
COLLECTIONS == {"personality", "rhetorical", "humor", "corpus"}

\* n_results of the four queries
CorpusN == 3
PersonalityN == 2
RhetoricalN == 1
HumorN == 2
\* the slices doc[:500], doc[:300], [:200], doc[:200]
CorpusCap == 500
PersonalityCap == 300
RhetoricalCap == 200
HumorCap == 200

(***************************************************************************)
(* Operations on texts.                                                    *)
(***************************************************************************)
Min(a, b) == IF a <= b THEN a ELSE b

UpperCase == <<"A", "B", "C", "D", "E", "F", "G", "H", "I", "J", "K", "L", "M",
               "N", "O", "P", "Q", "R", "S", "T", "U", "V", "W", "X", "Y", "Z">>
LowerCase == <<"a", "b", "c", "d", "e", "f", "g", "h", "i", "j", "k", "l", "m",
               "n", "o", "p", "q", "r", "s", "t", "u", "v", "w", "x", "y", "z">>

\* str.lower() on one character
LowerChar(c) ==
    IF \E i \in 1..Len(UpperCase) : UpperCase[i] = c
    THEN LowerCase[CHOOSE i \in 1..Len(UpperCase) : UpperCase[i] = c]
    ELSE c

\* str.lower()
Lower(text) == [i \in 1..Len(text) |-> LowerChar(text[i])]

\* kw in text
Contains(text, kw) ==
    \E i \in 0..Len(text) :
        /\ i + Len(kw) <= Len(text)
        /\ SubSeq(text, i + 1, i + Len(kw)) = kw

\* the slice keeps one character more
SliceOneMore(text, n) == SubSeq(text, 1, Min(n + 1, Len(text)))

\* text[:n]
Slice(text, n) == SubSeq(text, 1, Min(n, Len(text)))

\* the characters str.strip() removes
Whitespace == {" ", "\n", "\t", "\r"}

\* str.strip()
Strip(text) ==
    LET keep == {i \in 1..Len(text) : text[i] \notin Whitespace}
    IN  IF keep = {} THEN <<>>
        ELSE LET lo == CHOOSE i \in keep : \A j \in keep : i <= j
                 hi == CHOOSE i \in keep : \A j \in keep : j <= i
             IN  SubSeq(text, lo, hi)

RECURSIVE Concat(_)
\* "".join(parts)
Concat(parts) ==
    IF parts = <<>> THEN <<>> ELSE Head(parts) \o Concat(Tail(parts))

RECURSIVE Join(_, _)
\* sep.join(parts)
Join(sep, parts) ==
    IF parts = <<>> THEN <<>>
    ELSE IF Len(parts) = 1 THEN parts[1]
    ELSE parts[1] \o sep \o Join(sep, Tail(parts))

RECURSIVE Format(_, _)
\* template.format(personality_context=ctx)
Format(template, ctx) ==
    IF template = <<>> THEN <<>>
    ELSE IF Head(template) = Slot THEN ctx \o Format(Tail(template), ctx)
    ELSE <<Head(template)>> \o Format(Tail(template), ctx)

\* d.get(key, default)
Get(d, key, default) == IF key \in DOMAIN d THEN d[key] ELSE default

(***************************************************************************)
(* The inputs: documents of the vector store, messages, backend output.    *)
(***************************************************************************)
\* a document of n characters
Pad(n) == [i \in 1..n |-> IF i % 3 = 0 THEN "x" ELSE "y"]
DocA == <<"d", "1">>
DocB == <<"d", "2">>
DocMid == Pad(RhetoricalCap + 1)
DocLong == Pad(CorpusCap + 1)
\* documents of exactly 200, 300 and 500 characters
DocShortCap == Pad(RhetoricalCap)
DocMidCap == Pad(PersonalityCap)
DocFullCap == Pad(CorpusCap)

\* what a collection of the store answers to a query: it raises, it answers
\* without a document list, or it answers with its ranked documents
Answers ==
    { [kind |-> "raises", docs |-> <<>>],
      [kind |-> "nodocs", docs |-> <<>>],
      [kind |-> "ok", docs |-> <<>>],
      [kind |-> "ok", docs |-> <<DocLong, DocA, DocMid, DocB>>] }
\* a collection whose documents are as long as the caps
CapAnswer == [kind |-> "ok", docs |-> <<DocShortCap, DocMidCap, DocFullCap>>]
PlainAnswer == [kind |-> "ok", docs |-> <<DocA, DocB>>]
NoAnswer == [kind |-> "ok", docs |-> <<>>]

MsgUserHi == [role |-> "user", content |-> <<"h", "i">>]
MsgUserVibra == [role |-> "user", content |-> <<"V", "i", "b", "r", "a">>]
MsgUserEmpty == [role |-> "user", content |-> <<>>]
MsgUserNoContent == [role |-> "user"]
MsgSystem == [role |-> "system", content |-> <<"s">>]
MsgAssistant == [role |-> "assistant", content |-> <<"a">>]
MsgNoRole == [content |-> <<"e", "n", "e", "r", "g">>]
MsgTool == [role |-> "tool", content |-> <<"t">>]
Messages ==
    { MsgUserHi, MsgUserVibra, MsgUserEmpty, MsgUserNoContent, MsgSystem,
      MsgAssistant, MsgNoRole, MsgTool }

MessageLists == UNION { [1..n -> Messages] : n \in 0..MaxMsgs }

\* the JSON bodies: any message list with or without stream, and a body
\* with neither key
Requests ==
    { [messages |-> ms, stream |-> s] : ms \in MessageLists, s \in BOOLEAN }
    \cup { [messages |-> ms] : ms \in {<<>>, <<MsgUserHi>>} }
    \cup { [stream |-> TRUE] }
FewRequests ==
    { [messages |-> <<MsgUserVibra>>, stream |-> FALSE],
      [messages |-> <<MsgUserHi>>, stream |-> FALSE],
      [messages |-> <<MsgUserVibra, MsgAssistant>>, stream |-> FALSE] }

\* the module state of the server with retrieval after start-up: no client
\* and no collection, or a client and the collections that could be loaded
Stores ==
    { [client |-> FALSE, collections |-> {}, answer |-> [c \in COLLECTIONS |-> NoAnswer]] }
    \cup
    { [client |-> TRUE, collections |-> cs,
       answer |-> [c \in COLLECTIONS |-> IF c \in cs THEN a[c] ELSE NoAnswer]] :
         cs \in SUBSET COLLECTIONS, a \in [COLLECTIONS -> Answers] }
    \cup
    { [client |-> TRUE, collections |-> cs,
       answer |-> [c \in COLLECTIONS |-> IF c \in cs THEN CapAnswer ELSE NoAnswer]] :
         cs \in SUBSET COLLECTIONS }
FewStores ==
    { [client |-> FALSE, collections |-> {}, answer |-> [c \in COLLECTIONS |-> NoAnswer]],
      [client |-> TRUE, collections |-> COLLECTIONS,
       answer |-> [c \in COLLECTIONS |-> PlainAnswer]] }

\* standard output of a finished backend, and the lines of a streaming one
Stdouts == { <<>>, <<"o", "k", "\n">>, <<" ", "y", "e", "s", " ", "\n">> }
Lines == { <<"l", "\n">>, <<"\n">> }
\* str(e) of a failed launch
Details == { <<"E", "N", "O", "E", "N", "T">> }
\* uuid4().hex[:8] and int(datetime.now().timestamp())
Ids == {"1f", "2e"}
Times == {7, 8}

(***************************************************************************)
(* The state.                                                              *)
(***************************************************************************)
VARIABLES
    server,              \* "rag" or "plain": which of the two servers runs
    chroma_client,       \* the client is set (truthy)
    chroma_collections,  \* keys of the collections loaded at start-up
    store,               \* what each collection of the vector store answers
    request,             \* the JSON body of the request
    pc,                  \* position of the request in its handler
    messages,            \* chat_completions: messages
    stream,              \* chat_completions: stream
    user_message,        \* chat_completions: user_message
    context_parts,       \* retrieve_context: context_parts
    results,             \* retrieve_context: corpus_results ... humor_results
    personality_context, \* chat_completions: personality_context
    system_prompt,       \* chat_completions: system_prompt
    prompt_parts,        \* chat_completions: prompt_parts
    prompt,              \* chat_completions: prompt
    run,                 \* how the buffered subprocess.run ended
    response_text,       \* chat_completions: response_text
    response,            \* the JSON object returned in buffered mode
    status,              \* HTTP status of the response, 0 before it is sent
    proc,                \* the streaming backend process
    nlines,              \* lines the streaming backend has written
    stdout_lines,        \* call_claude_cli: the lines read from process.stdout
    response_id,         \* generate: response_id
    created,             \* generate: created
    events,              \* the SSE events generate has yielded
    gen,                 \* the generator generate(): new, suspended, exhausted, closed
    retrieve_calls       \* calls of retrieve_context made by the handler

vars ==
    << server, chroma_client, chroma_collections, store, request, pc, messages,
       stream, user_message, context_parts, results, personality_context,
       system_prompt, prompt_parts, prompt, run, response_text, response, status,
       proc, nlines, stdout_lines, response_id, created, events, gen,
       retrieve_calls >>

configVars == << server, chroma_client, chroma_collections, store, request >>
handlerVars == << messages, stream, user_message >>
retrieveVars == << context_parts, results, retrieve_calls >>
promptVars == << personality_context, system_prompt, prompt_parts, prompt >>
bufferedVars == << run, response_text, response, status >>
streamVars == << proc, nlines, stdout_lines, response_id, created, events, gen >>

Unqueried == [state |-> "unqueried"]
Raised == [state |-> "raised"]
NoResponse == [object |-> "none"]
NoRun == [kind |-> "none"]

(***************************************************************************)
(* retrieve_context.                                                       *)
(***************************************************************************)
\* collection.query(query_texts=[user_message], n_results=n) of a collection
\* that does not raise
Query(answer, n) ==
    [state |-> "returned",
     documents |-> IF answer.kind = "nodocs" THEN <<>>
                   ELSE << SubSeq(answer.docs, 1, Min(n, Len(answer.docs))) >>]

\* results and results['documents'] and results['documents'][0]
HasDocuments(res) ==
    /\ res.documents # <<>>
    /\ res.documents[1] # <<>>

\* for doc in results['documents'][0]: context_parts.append(doc[:cap])
Fragments(docs, cap) == [i \in 1..Len(docs) |-> Slice(docs[i], cap)]

\* the block is put in front of the earlier blocks
ExtendPartsInFront(parts, label, frags) == <<label>> \o frags \o parts

\* context_parts.append(label), then the append of each fragment
ExtendParts(parts, label, frags) == parts \o <<label>> \o frags

\* the keywords are looked up in the text as it was typed
HumorGateCaseSensitive(text) ==
    \E i \in 1..Len(humor_keywords) : Contains(text, humor_keywords[i])

\* any(kw in user_message.lower() for kw in humor_keywords)
HumorGate(text) ==
    \E i \in 1..Len(humor_keywords) : Contains(Lower(text), humor_keywords[i])

\* return "\n".join(context_parts) if context_parts else ""
ContextText(parts) == IF parts # <<>> THEN Join(<<"\n">>, parts) ELSE <<>>

(***************************************************************************)
(* Prompt assembly.                                                        *)
(***************************************************************************)
RECURSIVE LatestUserMessage(_)
\* for msg in reversed(messages): if msg.get('role') == 'user': ... break
LatestUserMessage(msgs) ==
    IF msgs = <<>> THEN <<>>
    ELSE LET msg == msgs[Len(msgs)]
         IN  IF "role" \in DOMAIN msg /\ msg["role"] = "user"
             THEN Get(msg, "content", <<>>)
             ELSE LatestUserMessage(SubSeq(msgs, 1, Len(msgs) - 1))

\* the context is substituted as it is, empty or not
SystemPromptRagNoSentinel(ctx) == Format(SERGIO_SYSTEM_PROMPT_RAG, ctx)

\* SERGIO_SYSTEM_PROMPT.format(personality_context=... if ... else "No ...")
SystemPromptRag(ctx) ==
    Format(SERGIO_SYSTEM_PROMPT_RAG, IF ctx # <<>> THEN ctx ELSE NoContextText)

\* a role that is not known falls back to the assistant
RenderMessageAssistantFallback(msg) ==
    LET role == Get(msg, "role", "user")
        content == Get(msg, "content", <<>>)
    IN  IF role = "system" THEN SystemTag \o content
        ELSE IF role = "user" THEN HumanTag \o content
        ELSE AssistantTag \o content

\* the branch of the loop body for one message
RenderMessage(msg) ==
    LET role == Get(msg, "role", "user")
        content == Get(msg, "content", <<>>)
    IN  IF role = "system" THEN SystemTag \o content
        ELSE IF role = "assistant" THEN AssistantTag \o content
        ELSE HumanTag \o content

\* a leading system message of the caller takes the place of the persona
PromptPartsCallerSystem(sysprompt, msgs) ==
    IF msgs # <<>> /\ Get(msgs[1], "role", "user") = "system"
    THEN [i \in 1..Len(msgs) |-> RenderMessage(msgs[i])]
    ELSE << SystemTag \o sysprompt >> \o [i \in 1..Len(msgs) |-> RenderMessage(msgs[i])]

\* prompt_parts after the loop over messages
PromptParts(sysprompt, msgs) ==
    << SystemTag \o sysprompt >> \o [i \in 1..Len(msgs) |-> RenderMessage(msgs[i])]

\* "\n\n".join(prompt_parts)
PromptText(parts) == Join(<<"\n", "\n">>, parts)

(***************************************************************************)
(* call_claude_cli and the response framing.                               *)
(***************************************************************************)
\* how subprocess.run can end: the process exits with a status, the 300 s
\* timeout expires, or the launch raises an OSError
RunOutcomes ==
    { [kind |-> "exit", code |-> c, stdout |-> s] : c \in {0, 1}, s \in Stdouts }
    \cup { [kind |-> "timeout"] }
    \cup { [kind |-> "oserror", detail |-> d] : d \in Details }

\* f"[Error: {str(e)}]"
ErrorText(detail) == ErrorOpen \o detail \o ErrorClose

\* str(e) of subprocess.TimeoutExpired
TimeoutDetail == <<"t", "i", "m", "e", "d", " ", "o", "u", "t">>

\* the handler of Exception placed before the handler of TimeoutExpired
CallClaudeCliOneHandler(outcome) ==
    IF outcome.kind = "exit"
    THEN [raised |-> FALSE, yielded |-> << outcome.stdout >>]
    ELSE IF outcome.kind = "timeout"
    THEN [raised |-> FALSE, yielded |-> << ErrorText(TimeoutDetail) >>]
    ELSE [raised |-> FALSE, yielded |-> << ErrorText(outcome.detail) >>]

\* call_claude_cli(prompt, stream=False): the texts it yields, and whether
\* an exception leaves it
CallClaudeCliBuffered(outcome) ==
    IF outcome.kind = "exit"
    THEN [raised |-> FALSE, yielded |-> << outcome.stdout >>]
    ELSE IF outcome.kind = "timeout"
    THEN [raised |-> FALSE, yielded |-> << TimeoutText >>]
    ELSE [raised |-> FALSE, yielded |-> << ErrorText(outcome.detail) >>]

\* the usage object of the buffered response
Usage(p, text) ==
    [ prompt_tokens |-> Len(p) \div 4,
      completion_tokens |-> Len(text) \div 4,
      total_tokens |-> (Len(p) + Len(text)) \div 4 ]

\* the JSON object of the buffered response
Completion(id, t, p, text) ==
    [ id |-> id, object |-> "chat.completion", created |-> t,
      content |-> Strip(text), finish_reason |-> "stop", usage |-> Usage(p, text) ]

\* a dict is the set of its items; None is the string "None"
ContentChunk(id, t, line) ==
    [ id |-> id, object |-> "chat.completion.chunk", created |-> t,
      delta |-> { <<"content", line>> }, finish_reason |-> "None" ]
FinalChunk(id, t) ==
    [ id |-> id, object |-> "chat.completion.chunk", created |-> t,
      delta |-> {}, finish_reason |-> "stop" ]

\* yield f"data: {json.dumps(data)}\n\n"
DataEvent(chunk) == [kind |-> "json", chunk |-> chunk]
\* yield "data: [DONE]\n\n"
DoneEvent == [kind |-> "text", text |-> "[DONE]"]

(***************************************************************************)
(* Start-up and the handler chat_completions.                              *)
(***************************************************************************)
InitWith(srv, st, req) ==
    /\ server = srv
    /\ chroma_client = st.client
    /\ chroma_collections = st.collections
    /\ store = st.answer
    /\ request = req
    /\ pc = "request"
    /\ messages = <<>>
    /\ stream = FALSE
    /\ user_message = <<>>
    /\ context_parts = <<>>
    /\ results = [c \in COLLECTIONS |-> Unqueried]
    /\ personality_context = <<>>
    /\ system_prompt = <<>>
    /\ prompt_parts = <<>>
    /\ prompt = <<>>
    /\ run = NoRun
    /\ response_text = <<>>
    /\ response = NoResponse
    /\ status = 0
    /\ proc = "none"
    /\ nlines = 0
    /\ stdout_lines = <<>>
    /\ retrieve_calls = 0
    /\ response_id = "none"
    /\ created = 0
    /\ events = <<>>
    /\ gen = "none"

\* the plain server has no vector store
NoStore == [client |-> FALSE, collections |-> {}, answer |-> [c \in COLLECTIONS |-> NoAnswer]]

Init ==
    \/ \E req \in Requests : InitWith("plain", NoStore, req)
    \/ \E req \in Requests, st \in FewStores : InitWith("rag", st, req)
    \/ \E req \in FewRequests, st \in Stores : InitWith("rag", st, req)

ChatCompletions ==
    /\ pc = "request"
    /\ messages' = Get(request, "messages", <<>>)
    /\ stream' = Get(request, "stream", FALSE)
    /\ user_message' = IF server = "rag" THEN LatestUserMessage(messages') ELSE <<>>
    /\ pc' = IF server = "rag" /\ user_message' # <<>> THEN "retrieve" ELSE "assemble"
    /\ UNCHANGED << configVars, retrieveVars, promptVars, bufferedVars, streamVars >>

\* entry of retrieve_context
RetrieveContext ==
    /\ pc = "retrieve"
    /\ pc' = IF chroma_client THEN "corpus" ELSE "assemble"
    /\ retrieve_calls' = retrieve_calls + 1
    /\ UNCHANGED << configVars, handlerVars, context_parts, results, promptVars,
                    bufferedVars, streamVars >>

\* one of the four blocks of the try: the query of collection c and the
\* appends that follow it; an exception of the query leaves the try
QueryBlock(c, n, label, cap, firstOnly, next) ==
    IF c \notin chroma_collections
    THEN /\ pc' = next
         /\ UNCHANGED retrieveVars
    ELSE IF store[c].kind = "raises"
    THEN /\ results' = [results EXCEPT ![c] = Raised]
         /\ pc' = "return"
         /\ UNCHANGED << context_parts, retrieve_calls >>
    ELSE LET res == Query(store[c], n)
             docs == IF firstOnly THEN << res.documents[1][1] >> ELSE res.documents[1]
         IN  /\ results' = [results EXCEPT ![c] = res]
             /\ context_parts' =
                    IF HasDocuments(res)
                    THEN ExtendParts(context_parts, label, Fragments(docs, cap))
                    ELSE context_parts
             /\ pc' = next
             /\ UNCHANGED retrieve_calls

QueryCorpus ==
    /\ pc = "corpus"
    /\ QueryBlock("corpus", CorpusN, CorpusLabel, CorpusCap, FALSE, "personality")
    /\ UNCHANGED << configVars, handlerVars, promptVars, bufferedVars, streamVars >>

QueryPersonality ==
    /\ pc = "personality"
    /\ QueryBlock("personality", PersonalityN, PersonalityLabel, PersonalityCap, FALSE,
                  "rhetorical")
    /\ UNCHANGED << configVars, handlerVars, promptVars, bufferedVars, streamVars >>

QueryRhetorical ==
    /\ pc = "rhetorical"
    /\ QueryBlock("rhetorical", RhetoricalN, RhetoricalLabel, RhetoricalCap, TRUE, "humor")
    /\ UNCHANGED << configVars, handlerVars, promptVars, bufferedVars, streamVars >>

QueryHumor ==
    /\ pc = "humor"
    /\ IF HumorGate(user_message)
       THEN QueryBlock("humor", HumorN, HumorLabel, HumorCap, FALSE, "return")
       ELSE pc' = "return" /\ UNCHANGED retrieveVars
    /\ UNCHANGED << configVars, handlerVars, promptVars, bufferedVars, streamVars >>

\* the return of retrieve_context
RetrieveReturn ==
    /\ pc = "return"
    /\ personality_context' = ContextText(context_parts)
    /\ pc' = "assemble"
    /\ UNCHANGED << configVars, handlerVars, retrieveVars, system_prompt, prompt_parts,
                    prompt, bufferedVars, streamVars >>

\* system_prompt, prompt_parts and prompt; in streaming mode the handler
\* returns Response(generate()) and the status line is sent
Assemble ==
    /\ pc = "assemble"
    /\ system_prompt' = IF server = "rag" THEN SystemPromptRag(personality_context)
                        ELSE SERGIO_SYSTEM_PROMPT_PLAIN
    /\ prompt_parts' = PromptParts(system_prompt', messages)
    /\ prompt' = PromptText(prompt_parts')
    /\ pc' = IF stream THEN "stream" ELSE "buffered"
    /\ gen' = IF stream THEN "new" ELSE gen
    /\ status' = IF stream THEN 200 ELSE status
    /\ UNCHANGED << configVars, handlerVars, retrieveVars, personality_context, run,
                    response_text, response, proc, nlines, stdout_lines, response_id,
                    created,
                    events >>

\* buffered mode: call_claude_cli runs to its end and the object is returned;
\* an exception leaving the handler is answered with status 500
BufferedResponse ==
    /\ pc = "buffered"
    /\ \E outcome \in RunOutcomes, id \in Ids, t \in Times :
          LET cli == CallClaudeCliBuffered(outcome)
          IN  /\ run' = outcome
              /\ IF cli.raised
                 THEN /\ status' = 500
                      /\ UNCHANGED << response_text, response >>
                 ELSE /\ response_text' = Concat(cli.yielded)
                      /\ response' = Completion(id, t, prompt, response_text')
                      /\ status' = 200
    /\ pc' = "done"
    /\ UNCHANGED << configVars, handlerVars, retrieveVars, promptVars, streamVars >>

(***************************************************************************)
(* Streaming mode: the generator generate() around call_claude_cli.  The   *)
(* generator is "new" before its first step, "reading" while it waits for  *)
(* the backend, "yielded" / "failed" when suspended at the yield of the     *)
(* loop (after a line / after the error text), "final" and "sentinel" when *)
(* suspended at its last two yields, "exhausted" or "closed" at its end.   *)
(***************************************************************************)
\* a terminal chunk only after some content chunk
AfterLoopIfContent(ev, id, t) ==
    IF ev = <<>> THEN ev ELSE Append(ev, DataEvent(FinalChunk(id, t)))

\* events after the loop has ended and the generator is resumed twice
AfterLoop(ev, id, t) == Append(ev, DataEvent(FinalChunk(id, t)))
AfterFinal(ev) == Append(ev, DoneEvent)

\* the chunk of a line is kept back instead of being yielded
YieldLineHeldBack(ev, id, t, line) == ev

\* the body of the loop of generate(): the chunk of one line is yielded
YieldLine(ev, id, t, line) == Append(ev, DataEvent(ContentChunk(id, t, line)))

\* first step of generate(): the id, the timestamp and the Popen
GenStart ==
    /\ pc = "stream"
    /\ gen = "new"
    /\ \E id \in Ids, t \in Times :
          /\ response_id' = id
          /\ created' = t
          /\ \/ /\ proc' = "running"
                /\ gen' = "reading"
                /\ UNCHANGED events
             \/ \E d \in Details :
                   /\ events' = Append(events, DataEvent(ContentChunk(id, t, ErrorText(d))))
                   /\ gen' = "failed"
                   /\ UNCHANGED proc
    /\ UNCHANGED << configVars, pc, handlerVars, retrieveVars, promptVars, bufferedVars,
                    nlines, stdout_lines >>

\* the backend writes a line; call_claude_cli yields it and generate yields
\* its chunk
StreamLine ==
    /\ pc = "stream"
    /\ gen \in {"reading", "yielded"}
    /\ proc = "running"
    /\ nlines < MaxLines
    /\ \E line \in Lines :
          /\ stdout_lines' = Append(stdout_lines, line)
          /\ events' = YieldLine(events, response_id, created, line)
    /\ nlines' = nlines + 1
    /\ gen' = "yielded"
    /\ UNCHANGED << configVars, pc, handlerVars, retrieveVars, promptVars, bufferedVars,
                    proc, response_id, created >>

\* reading process.stdout raises (undecodable output): the handler of
\* Exception yields the error text, and process.wait() is not reached
StreamReadError ==
    /\ pc = "stream"
    /\ gen \in {"reading", "yielded"}
    /\ proc = "running"
    /\ \E d \in Details :
          events' = Append(events,
                           DataEvent(ContentChunk(response_id, created, ErrorText(d))))
    /\ gen' = "failed"
    /\ UNCHANGED << configVars, pc, handlerVars, retrieveVars, promptVars, bufferedVars,
                    proc, nlines, stdout_lines, response_id, created >>

\* the backend closes its output: process.wait(), the loop ends and the
\* terminal chunk is yielded
StreamEnd ==
    /\ pc = "stream"
    /\ gen \in {"reading", "yielded"}
    /\ proc = "running"
    /\ proc' = "reaped"
    /\ events' = AfterLoop(events, response_id, created)
    /\ gen' = "final"
    /\ UNCHANGED << configVars, pc, handlerVars, retrieveVars, promptVars, bufferedVars,
                    nlines, stdout_lines, response_id, created >>

\* call_claude_cli ends after the error text: the loop ends and the terminal
\* chunk is yielded
StreamEndFailed ==
    /\ pc = "stream"
    /\ gen = "failed"
    /\ events' = AfterLoop(events, response_id, created)
    /\ gen' = "final"
    /\ UNCHANGED << configVars, pc, handlerVars, retrieveVars, promptVars, bufferedVars,
                    proc, nlines, stdout_lines, response_id, created >>

\* the [DONE] event
StreamDone ==
    /\ pc = "stream"
    /\ gen = "final"
    /\ events' = AfterFinal(events)
    /\ gen' = "sentinel"
    /\ UNCHANGED << configVars, pc, handlerVars, retrieveVars, promptVars, bufferedVars,
                    proc, nlines, stdout_lines, response_id, created >>

\* the generator returns
StreamStop ==
    /\ pc = "stream"
    /\ gen = "sentinel"
    /\ gen' = "exhausted"
    /\ pc' = "done"
    /\ UNCHANGED << configVars, handlerVars, retrieveVars, promptVars, bufferedVars,
                    proc, nlines, stdout_lines, response_id, created, events >>

\* the client goes away: the server closes the suspended generator, which
\* raises GeneratorExit at the yield; no handler of generate or of
\* call_claude_cli catches it, and nothing kills or awaits the process
ClientDisconnect ==
    /\ pc = "stream"
    /\ gen \in {"new", "yielded", "failed", "final", "sentinel"}
    /\ gen' = "closed"
    /\ pc' = "done"
    /\ UNCHANGED << configVars, handlerVars, retrieveVars, promptVars, bufferedVars,
                    proc, nlines, stdout_lines, response_id, created, events >>

Next ==
    \/ ChatCompletions
    \/ RetrieveContext
    \/ QueryCorpus
    \/ QueryPersonality
    \/ QueryRhetorical
    \/ QueryHumor
    \/ RetrieveReturn
    \/ Assemble
    \/ BufferedResponse
    \/ GenStart
    \/ StreamLine
    \/ StreamReadError
    \/ StreamEnd
    \/ StreamEndFailed
    \/ StreamDone
    \/ StreamStop
    \/ ClientDisconnect

Spec == Init /\ [][Next]_vars

(***************************************************************************)
(* The claims.                                                             *)
(***************************************************************************)
IsPrefix(p, text) == Len(p) <= Len(text) /\ SubSeq(text, 1, Len(p)) = p
IsSuffix(p, text) ==
    Len(p) <= Len(text) /\ SubSeq(text, Len(text) - Len(p) + 1, Len(text)) = p
Assembled == pc \in {"buffered", "stream", "done"}
IsTerminal(ev) ==
    ev.kind = "json" /\ ev.chunk.delta = {} /\ ev.chunk.finish_reason = "stop"
IsContent(ev) ==
    ev.kind = "json" /\ ev.chunk.delta # {} /\ ev.chunk.finish_reason = "None"

\* C1: whatever the backend does (lines, none, a failed launch), the events
\* of a generator that ran to its end are content chunks, then exactly one
\* terminal chunk (empty delta, finish_reason "stop"), then exactly one
\* [DONE] event; in every state a [DONE] event is the last event and a
\* terminal chunk is followed by nothing but [DONE].
C1_StreamEndsWithStopThenDone ==
    /\ \A i \in 1..Len(events) :
          /\ events[i] = DoneEvent =>
                i = Len(events) /\ i >= 2 /\ IsTerminal(events[i - 1])
          /\ IsTerminal(events[i]) =>
                \/ i = Len(events)
                \/ i = Len(events) - 1 /\ events[i + 1] = DoneEvent
          /\ events[i] = DoneEvent \/ IsTerminal(events[i]) \/ IsContent(events[i])
    /\ gen = "exhausted" =>
          /\ Len(events) >= 2
          /\ events[Len(events)] = DoneEvent
          /\ IsTerminal(events[Len(events) - 1])

\* C1 witness: a backend that wrote nothing, streamed to the end
C1_Witness ==
    gen = "exhausted" /\ proc = "reaped" /\ nlines = 0 /\ Len(events) = 2

\* C2: the usage of every buffered response has prompt_tokens =
\* floor(len(prompt)/4), completion_tokens = floor(len(completion)/4) and
\* total_tokens = prompt_tokens + completion_tokens.
C2_UsageTotalIsSum ==
    response.object = "chat.completion" =>
        /\ response.usage.prompt_tokens = Len(prompt) \div 4
        /\ response.usage.completion_tokens = Len(response_text) \div 4
        /\ response.usage.total_tokens =
              response.usage.prompt_tokens + response.usage.completion_tokens

\* C3: for every message list the first segment of the transcript is the
\* persona block behind "System: "; every message of the caller, system
\* messages included, is a later segment.
C3_PersonaFirst ==
    Assembled =>
        /\ Len(prompt_parts) = Len(messages) + 1
        /\ prompt_parts[1] = SystemTag \o system_prompt
        /\ IsPrefix(PersonaBody, system_prompt)
        /\ IsPrefix(SystemTag \o PersonaBody, prompt)
        /\ \A i \in 1..Len(messages) :
              Get(messages[i], "role", "user") = "system" =>
                 prompt_parts[i + 1] = SystemTag \o Get(messages[i], "content", <<>>)

\* C3 witness: a transcript assembled from a list that starts with a system
\* message of the caller
C3_Witness ==
    Assembled /\ Len(messages) = 2 /\ messages[1] = MsgSystem /\ prompt # <<>>

\* C4: in buffered mode a backend that exits with a non-zero status or fails
\* to launch gives a normal completion object, finish_reason "stop", whose
\* content is the error sentinel "[Error: ...]".
C4_ExecutionErrorSentinel ==
    (pc = "done" /\ (run.kind = "oserror" \/ (run.kind = "exit" /\ run.code # 0))) =>
        /\ status = 200
        /\ response.object = "chat.completion"
        /\ response.finish_reason = "stop"
        /\ IsPrefix(ErrorOpen, response.content)
        /\ IsSuffix(ErrorClose, response.content)

\* C5: in buffered mode a backend that exceeds the 300 s timeout gives a
\* normal completion object (status 200, no exception) whose content is
\* exactly "[Error: Request timed out after 300s]".
C5_TimeoutSentinel ==
    (pc = "done" /\ run.kind = "timeout") =>
        /\ status = 200
        /\ response.object = "chat.completion"
        /\ response.finish_reason = "stop"
        /\ response.content = TimeoutText
        /\ Len(response.content) = 37

\* C5 witness: a buffered request whose backend timed out
C5_Witness == pc = "done" /\ ~stream /\ run.kind = "timeout" /\ status = 200

CanonicalOrder == <<"corpus", "personality", "rhetorical", "humor">>
LabelOf(c) ==
    CASE c = "corpus" -> CorpusLabel
      [] c = "personality" -> PersonalityLabel
      [] c = "rhetorical" -> RhetoricalLabel
      [] c = "humor" -> HumorLabel
CapOf(c) ==
    CASE c = "corpus" -> CorpusCap
      [] c = "personality" -> PersonalityCap
      [] c = "rhetorical" -> RhetoricalCap
      [] c = "humor" -> HumorCap
Labels == { LabelOf(c) : c \in COLLECTIONS }
\* the query of collection c was made and returned at least one document
ReturnedDocs(c) ==
    /\ results[c].state = "returned"
    /\ results[c].documents # <<>>
    /\ results[c].documents[1] # <<>>
LabelPresent(c) == \E i \in 1..Len(context_parts) : context_parts[i] = LabelOf(c)
\* the lower-cased query holds one of the seven keywords
KeywordHit ==
    \E i \in 1..Len(humor_keywords) :
        LET lowered == [j \in 1..Len(user_message) |-> LowerChar(user_message[j])]
        IN  Contains(lowered, humor_keywords[i])
Activation(c) == c # "humor" \/ KeywordHit
\* retrieve_context was called with a client and has returned
Retrieved ==
    /\ server = "rag"
    /\ user_message # <<>>
    /\ chroma_client
    /\ pc \in {"assemble", "buffered", "stream", "done"}

\* C6: when the lookup of one collection raises, every other collection that
\* is loaded, has at least one document to return and satisfies its
\* activation predicate still has its labeled block in the context, whether
\* it comes before or after the failing one, and the request does not fail.
C6_OnlyFailingCollectionSkipped ==
    /\ Retrieved =>
          \A c \in COLLECTIONS :
             results[c].state = "raised" =>
                \A d \in COLLECTIONS \ {c} :
                   ( /\ d \in chroma_collections
                     /\ store[d].kind = "ok"
                     /\ store[d].docs # <<>>
                     /\ Activation(d) ) => LabelPresent(d)
    /\ pc = "done" => status = 200

\* C7: when retrieval yields no fragment (no client, no collection, no
\* document, or a failed lookup), the slot of the persona template holds
\* exactly "No additional context retrieved.", the transcript is assembled
\* and the request completes with status 200.
C7_NoContextSentinel ==
    (server = "rag" /\ Assembled /\ \A c \in COLLECTIONS : ~ReturnedDocs(c)) =>
        /\ context_parts = <<>>
        /\ system_prompt = PersonaBody \o <<"\n", "\n">> \o NoContextText
        /\ IsPrefix(SystemTag \o system_prompt, prompt)
        /\ Len(prompt_parts) = Len(messages) + 1
        /\ pc = "done" => status = 200

\* C7 witness: a request with a user message served without a vector store
C7_Witness ==
    /\ server = "rag" /\ pc = "done" /\ ~chroma_client /\ user_message # <<>>
    /\ status = 200

\* the block collection c contributes: its label and the documents its query
\* returned, in rank order, each cut to the cap of the collection
ExpectedBlock(c) ==
    IF ReturnedDocs(c)
    THEN <<LabelOf(c)>> \o
         [i \in 1..Len(results[c].documents[1]) |->
             SubSeq(results[c].documents[1][i], 1,
                    Min(CapOf(c), Len(results[c].documents[1][i])))]
    ELSE <<>>

\* C8: the labeled blocks of the context are in the order corpus,
\* personality, rhetorical, humor, each with its documents in the rank order
\* its collection returned; blocks are never interleaved or reordered, and
\* the context text is the blocks joined in that order.
C8_CanonicalBlockOrder ==
    /\ context_parts =
          ExpectedBlock(CanonicalOrder[1]) \o ExpectedBlock(CanonicalOrder[2])
             \o ExpectedBlock(CanonicalOrder[3]) \o ExpectedBlock(CanonicalOrder[4])
    /\ Retrieved => personality_context = Join(<<"\n">>, context_parts)

\* C8 witness: all four collections contributed a block
C8_Witness ==
    /\ pc = "done"
    /\ \A c \in COLLECTIONS : ReturnedDocs(c) /\ LabelPresent(c)
    /\ Len(results["corpus"].documents[1]) = 3

\* C9: a collection's label is in the context exactly when the collection is
\* loaded, its query returned at least one document and its activation
\* predicate holds (always for corpus, personality and rhetorical; for humor
\* a keyword in the lower-cased query); humor is queried only then; with no
\* failed lookup every loaded and activated collection is queried; and a
\* label is always followed by a fragment.
C9_BlockIffAvailableReturnedActivated ==
    /\ \A c \in COLLECTIONS :
          /\ LabelPresent(c) <=>
                (c \in chroma_collections /\ ReturnedDocs(c) /\ Activation(c))
          /\ results[c].state # "unqueried" =>
                (c \in chroma_collections /\ Activation(c))
    /\ (Retrieved /\ \A c \in COLLECTIONS : results[c].state # "raised") =>
          \A c \in chroma_collections :
             Activation(c) => results[c].state = "returned"
    /\ \A i \in 1..Len(context_parts) :
          context_parts[i] \in Labels =>
             i < Len(context_parts) /\ context_parts[i + 1] \notin Labels

\* C9 witness: a query with the keyword in capitals got the humor block
C9_Witness ==
    /\ Retrieved
    /\ user_message = MsgUserVibra.content
    /\ LabelPresent("humor")

\* C10: no state has the response stream closed by a disconnect while the
\* backend process is still running, neither killed nor awaited.
C10_NoOrphanedBackend == ~(gen = "closed" /\ proc = "running")

ContentEvents == SelectSeq(events, IsContent)
SameIdAndTime ==
    \A i \in 1..Len(events) :
        events[i].kind = "json" =>
           events[i].chunk.id = response_id /\ events[i].chunk.created = created

\* C11 as stated: the content chunks of a streamed response are exactly the
\* lines the backend wrote, one chunk per line in order, with finish_reason
\* null, and every chunk carries the same id and timestamp.
C11_OneChunkPerBackendLine ==
    /\ Len(ContentEvents) = Len(stdout_lines)
    /\ \A i \in 1..Len(stdout_lines) :
          events[i] = DataEvent(ContentChunk(response_id, created, stdout_lines[i]))
    /\ SameIdAndTime

\* C11 amended: the content chunks are the lines read so far, one chunk per
\* line in order, delta.content the line, finish_reason null, each emitted
\* before the next line is read; only when launching or reading the backend
\* raised an exception, one further content chunk follows them, carrying
\* "[Error: <detail>]"; every chunk, the terminal one included, carries the
\* same id and timestamp.
C11_OneChunkPerLineThenError ==
    /\ SameIdAndTime
    /\ \A i \in 1..Len(events), j \in 1..Len(events) :
          (events[i].kind = "json" /\ events[j].kind = "json") =>
             /\ events[i].chunk.id = events[j].chunk.id
             /\ events[i].chunk.created = events[j].chunk.created
    /\ \A i \in 1..Len(stdout_lines) :
          /\ i <= Len(events)
          /\ events[i].kind = "json"
          /\ events[i].chunk.delta = { <<"content", stdout_lines[i]>> }
          /\ events[i].chunk.finish_reason = "None"
    /\ Len(ContentEvents) \in { Len(stdout_lines), Len(stdout_lines) + 1 }
    /\ Len(ContentEvents) = Len(stdout_lines) + 1 =>
          /\ gen \notin {"reading", "yielded"}
          /\ proc # "reaped"
          /\ \E d \in Details :
                events[Len(stdout_lines) + 1].chunk.delta =
                   { <<"content", ErrorOpen \o d \o ErrorClose>> }
    /\ proc = "reaped" => Len(ContentEvents) = Len(stdout_lines)

\* C11 witness: two different lines streamed to the end
C11_Witness ==
    /\ gen = "exhausted"
    /\ Len(stdout_lines) = 2
    /\ stdout_lines[1] # stdout_lines[2]
    /\ Len(events) = 4

\* the tag of a message: "System: " for system, "Assistant: " for assistant,
\* "Human: " for every other role and for a missing role
TagOf(msg) ==
    IF "role" \in DOMAIN msg /\ msg["role"] = "system" THEN SystemTag
    ELSE IF "role" \in DOMAIN msg /\ msg["role"] = "assistant" THEN AssistantTag
    ELSE HumanTag
ContentOf(msg) == IF "content" \in DOMAIN msg THEN msg["content"] ELSE <<>>

\* C12: after the persona segment the transcript has exactly one segment per
\* message, in message order, tagged by role (system, assistant, anything
\* else as Human); the segments are joined by a double newline, no message
\* is dropped and none fails the request.
C12_OneSegmentPerMessage ==
    /\ Assembled =>
          /\ Len(prompt_parts) = Len(messages) + 1
          /\ \A i \in 1..Len(messages) :
                prompt_parts[i + 1] = TagOf(messages[i]) \o ContentOf(messages[i])
          /\ prompt = Join(<<"\n", "\n">>, prompt_parts)
    /\ status # 500

\* C12 witness: a list with a message without role and one of an unknown role
C12_Witness ==
    /\ Assembled
    /\ messages = <<MsgNoRole, MsgTool>>
    /\ prompt_parts[2] = HumanTag \o MsgNoRole.content
    /\ prompt_parts[3] = HumanTag \o MsgTool.content

\* the caps as the claim states them
StatedCap(c) ==
    CASE c = "corpus" -> 500
      [] c = "personality" -> 300
      [] c = "rhetorical" -> 200
      [] c = "humor" -> 200
\* position of the label of collection c in context_parts
LabelAt(c) == CHOOSE i \in 1..Len(context_parts) : context_parts[i] = LabelOf(c)

\* C13: every fragment in the context is no longer than the cap of its
\* collection (500, 300, 200, 200); a document at or under the cap is
\* emitted unchanged and a longer one is cut to its first cap characters.
C13_FragmentWithinCap ==
    \A c \in COLLECTIONS :
       ReturnedDocs(c) =>
          \A i \in 1..Len(results[c].documents[1]) :
             LET doc == results[c].documents[1][i]
                 frag == context_parts[LabelAt(c) + i]
             IN  /\ Len(frag) <= StatedCap(c)
                 /\ Len(doc) <= StatedCap(c) => frag = doc
                 /\ Len(doc) > StatedCap(c) =>
                       /\ Len(frag) = StatedCap(c)
                       /\ \A k \in 1..StatedCap(c) : frag[k] = doc[k]

\* C13 witness: the corpus block holds a document of exactly 500 characters
\* unchanged and the humor block a document of 300 cut to 200
C13_Witness ==
    /\ pc = "done"
    /\ ReturnedDocs("corpus") /\ ReturnedDocs("humor")
    /\ results["corpus"].documents[1] = <<DocShortCap, DocMidCap, DocFullCap>>
    /\ context_parts[LabelAt("corpus") + 3] = DocFullCap
    /\ results["humor"].documents[1] = <<DocShortCap, DocMidCap>>
    /\ Len(context_parts[LabelAt("humor") + 2]) = 200

\* the messages the transcript renders as "Human: " turns
HumanTurns == { i \in 1..Len(messages) : TagOf(messages[i]) = HumanTag }
LastHumanTurn == CHOOSE i \in HumanTurns : \A j \in HumanTurns : j <= i

\* C14: the retriever is invoked at most once per request; the content of
\* the last message rendered as a "Human: " turn is the retrieval query; with
\* no such message, or an empty content, the retriever is not invoked and the
\* sentinel context is used.
C14_QueryIsLastHumanTurn ==
    (server = "rag" /\ pc # "request") =>
        /\ retrieve_calls <= 1
        /\ IF HumanTurns # {} /\ ContentOf(messages[LastHumanTurn]) # <<>>
           THEN /\ user_message = ContentOf(messages[LastHumanTurn])
                /\ Assembled => retrieve_calls = 1
           ELSE /\ retrieve_calls = 0
                /\ Assembled => IsSuffix(NoContextText, system_prompt)

====
